---- MODULE Spec2Model ----
(***************************************************************************)
(* dorsal-whisper: the process-wide single-slot model cache                *)
(* (FasterWhisperTranscriber._load_model) and the transcription pipeline   *)
(* (FasterWhisperTranscriber.main) of src/dorsal_whisper/model.py.         *)
(*                                                                         *)
(* Python values are modelled as follows.  An optional value is a sequence *)
(* of length 0 (None) or 1 (<<v>>); the class attribute _active_model is   *)
(* <<>> (None), the pair <<cache_key, model>>, or <<"deleted">> between    *)
(* the del statement of line 63 and the assignment of line 64.  A model    *)
(* instance is the identity of the object the constructor returned: a      *)
(* natural number that next_id hands out once.  Strings are strings, so    *)
(* that the f-string cache key is computed by concatenation as the code    *)
(* computes it.  An exception is the name of its class with what str() gives *)
(* for it; except clauses match the class against the built-in hierarchy.  *)
(***************************************************************************)
EXTENDS Integers, Sequences, FiniteSets, TLC

VARIABLES
    WhisperModel,   \* module global: <<>> when the import failed (line 30), <<"WhisperModel">> otherwise
    active_model,   \* FasterWhisperTranscriber._active_model (ClassVar, line 50)
    next_id,        \* identity of the next object a constructor returns
    pc,             \* per caller: the statement it is at
    lm,             \* per caller: the frame of _load_model
    mn,             \* per caller: the frame of main, with what it reported to the harness
    prev_call,      \* history: the most recent _load_model call that ended
    evicted,        \* history: the <<cache_key, model>> entries dropped from the slot
    active_config,  \* history: the <<model_size, compute_type>> the slot's entry was loaded
                    \* for and the device of the constructor call that made it
    calls,          \* number of top-level invocations started
    host            \* how the host schedules callers: "serial", "mutex" or "free"

vars == <<WhisperModel, active_model, next_id, pc, lm, mn, prev_call, evicted,
          active_config, calls, host>>

----------------------------------------------------------------------------
(* Bounds of the model *)

MaxCalls == 3
MaxSegs == 2
MaxConcurrentCalls == 2

(* Callers: each caller owns one FasterWhisperTranscriber object *)
Procs == {1, 2}

(* Inputs *)
Sizes == {"large", "large-v3"}
ComputeTypes == {"int8", "v3-int8"}

(* An exception: the name of its class and str(e) *)
Exc(cls, str) == [cls |-> cls, str |-> str]

(* What the WhisperModel constructor raises: one of the two classes the
   fallback is for, a subclass of the other, an Exception that is neither, and
   an exception that is no Exception *)
CtorErrors ==
    {Exc("ValueError", "unsupported compute type"),
     Exc("NotImplementedError", "no backend for this device"),
     Exc("OSError", "model not found"),
     Exc("KeyboardInterrupt", "")}

(* The exceptions the interpreter raises in the statements of the code *)
NoInstanceAttribute ==
    Exc("AttributeError", "'FasterWhisperTranscriber' object has no attribute '_active_model'")
NoClassAttribute ==
    Exc("AttributeError", "type object 'FasterWhisperTranscriber' has no attribute '_active_model'")
NoneNotSubscriptable == Exc("TypeError", "'NoneType' object is not subscriptable")
NoneNotCallable == Exc("TypeError", "'NoneType' object is not callable")
RoundOfNone == Exc("TypeError", "type NoneType doesn't define __round__ method")
MathRangeError == Exc("OverflowError", "math range error")

----------------------------------------------------------------------------
(* _load_model, lines 52-83 *)

(* The key without the compute type *)
CacheKeySizeOnly(model_size, compute_type) == model_size

(* line 53: cache_key = f"{model_size}-{compute_type}" *)
CacheKey(model_size, compute_type) == model_size \o "-" \o compute_type

(* The class attribute after del FasterWhisperTranscriber._active_model *)
Deleted == <<"deleted">>

(* What evaluating self._active_model raises: AttributeError when the class
   attribute is deleted (AnnotationModel defines no _active_model) *)
ReadRaises(slot) == IF slot = Deleted THEN <<NoInstanceAttribute>> ELSE <<>>

(* What evaluating self._active_model[i] raises: also TypeError on None *)
SubscriptRaises(slot) ==
    IF slot = Deleted THEN <<NoInstanceAttribute>>
    ELSE IF slot = <<>> THEN <<NoneNotSubscriptable>>
    ELSE <<>>

(* bool(self._active_model): None is false, a pair is true *)
Truthy(slot) == slot # <<>>

(* The comparison of the keys inverted; the key not compared at all *)
IsCacheHitInverted(slot, cache_key) == slot[1] # cache_key
IsCacheHitAnyKey(slot, cache_key) == TRUE

(* line 55, right operand: self._active_model[0] == cache_key *)
IsCacheHit(slot, cache_key) == slot[1] = cache_key

(* The eviction never entered *)
EvictNeededNever(slot) == FALSE

(* line 59: if self._active_model *)
EvictNeeded(slot) == Truthy(slot)

(* line 64: FasterWhisperTranscriber._active_model = None *)
EvictSlot(slot) == <<>>

(* The direct bases of the exception classes of the standard library: the
   built-in ones, asyncio.CancelledError, json.JSONDecodeError and
   io.UnsupportedOperation *)
Parents(cls) ==
    CASE cls = "BaseException" -> {}
      [] cls \in {"BaseExceptionGroup", "CancelledError", "Exception", "GeneratorExit",
                  "KeyboardInterrupt", "SystemExit"} -> {"BaseException"}
      [] cls = "ExceptionGroup" -> {"BaseExceptionGroup", "Exception"}
      [] cls \in {"ArithmeticError", "AssertionError", "AttributeError", "BufferError",
                  "EOFError", "ImportError", "LookupError", "MemoryError", "NameError",
                  "OSError", "ReferenceError", "RuntimeError", "StopAsyncIteration",
                  "StopIteration", "SyntaxError", "SystemError", "TypeError", "ValueError",
                  "Warning"} -> {"Exception"}
      [] cls \in {"FloatingPointError", "OverflowError", "ZeroDivisionError"} ->
            {"ArithmeticError"}
      [] cls = "ModuleNotFoundError" -> {"ImportError"}
      [] cls \in {"IndexError", "KeyError"} -> {"LookupError"}
      [] cls = "UnboundLocalError" -> {"NameError"}
      [] cls \in {"BlockingIOError", "ChildProcessError", "ConnectionError",
                  "FileExistsError", "FileNotFoundError", "InterruptedError",
                  "IsADirectoryError", "NotADirectoryError", "PermissionError",
                  "ProcessLookupError", "TimeoutError"} -> {"OSError"}
      [] cls \in {"BrokenPipeError", "ConnectionAbortedError", "ConnectionRefusedError",
                  "ConnectionResetError"} -> {"ConnectionError"}
      [] cls = "UnsupportedOperation" -> {"OSError", "ValueError"}
      [] cls \in {"NotImplementedError", "RecursionError", "PythonFinalizationError"} ->
            {"RuntimeError"}
      [] cls = "IndentationError" -> {"SyntaxError"}
      [] cls = "TabError" -> {"IndentationError"}
      [] cls \in {"JSONDecodeError", "UnicodeError"} -> {"ValueError"}
      [] cls \in {"UnicodeDecodeError", "UnicodeEncodeError", "UnicodeTranslateError"} ->
            {"UnicodeError"}
      [] cls \in {"BytesWarning", "DeprecationWarning", "EncodingWarning", "FutureWarning",
                  "ImportWarning", "PendingDeprecationWarning", "ResourceWarning",
                  "RuntimeWarning", "SyntaxWarning", "UnicodeWarning", "UserWarning"} ->
            {"Warning"}

(* The classes in the __mro__ of the class cls, without object *)
RECURSIVE Bases(_)
Bases(cls) == {cls} \cup UNION {Bases(b) : b \in Parents(cls)}

(* isinstance(e, cls) *)
IsInstance(e, cls) == cls \in Bases(e.cls)

(* except Exception: every failure of the first attempt retried *)
RecoverableAny(e) == TRUE

(* line 74: except (ValueError, RuntimeError) *)
Recoverable(e) == IsInstance(e, "ValueError") \/ IsInstance(e, "RuntimeError")

(* line 82: FasterWhisperTranscriber._active_model = (cache_key, model) *)
StoreSlot(cache_key, model) == <<cache_key, model>>

(* One invocation of the WhisperModel constructor, as the environment saw it *)
CtorCall(size, device, compute_type, raised, made) ==
    [model_size_or_path |-> size, device |-> device, compute_type |-> compute_type,
     raised |-> raised, made |-> made]

LmNoFrame ==
    [model_size |-> "", compute_type |-> "", cache_key |-> "", model |-> <<>>,
     ctor |-> <<>>, outcome |-> <<>>, caller |-> "",
     slot0 |-> <<>>, config0 |-> <<>>, prev0 |-> <<>>, slot1 |-> <<>>]

(* The call: bind the parameters and compute the key (lines 52-53) *)
EnterLoadModel(p, model_size, compute_type, caller) ==
    /\ lm' = [lm EXCEPT ![p] =
                [LmNoFrame EXCEPT !.model_size = model_size,
                                  !.compute_type = compute_type,
                                  !.cache_key = CacheKey(model_size, compute_type),
                                  !.caller = caller,
                                  !.slot0 = active_model,
                                  !.config0 = active_config,
                                  !.prev0 = prev_call]]
    /\ pc' = [pc EXCEPT ![p] = "lm_check"]

AfterLoadModel(p) == IF lm[p].caller = "main" THEN "m_loaded" ELSE "done"

(* return h (lines 57, 83), with the slot as the call leaves it *)
LmReturn(p, h, frame, slot) ==
    /\ lm' = [lm EXCEPT ![p] = [frame EXCEPT !.outcome = <<"return", h>>, !.slot1 = slot]]
    /\ prev_call' = <<frame.model_size, frame.compute_type, "return", h, p>>
    /\ pc' = [pc EXCEPT ![p] = AfterLoadModel(p)]

(* an exception leaves _load_model (lines 71-78 raise through) *)
LmRaise(p, e, frame, slot) ==
    /\ lm' = [lm EXCEPT ![p] = [frame EXCEPT !.outcome = <<"raise", e>>, !.slot1 = slot]]
    /\ prev_call' = <<frame.model_size, frame.compute_type, "raise", 0, p>>
    /\ pc' = [pc EXCEPT ![p] = AfterLoadModel(p)]

(* The design's single-active-invocation assumption: a caller starts only
   when no other invocation is in flight *)
Serialized == \A q \in Procs : pc[q] = "idle"

(* A direct call transcriber._load_model(model_size, compute_type) *)
CallLoadModel(p) ==
    /\ pc[p] = "idle"
    /\ Serialized
    /\ calls < MaxCalls
    /\ \E model_size \in Sizes, compute_type \in ComputeTypes :
          EnterLoadModel(p, model_size, compute_type, "direct")
    /\ calls' = calls + 1
    /\ UNCHANGED <<WhisperModel, host, mn, active_model, next_id, prev_call, evicted, active_config>>

(* One statement of _load_model that reads the slot and assigns nothing: it
   raises `raised` when that is not empty, else control passes to `to` *)
LmReadStep(p, raised, to) ==
    /\ IF raised # <<>>
       THEN LmRaise(p, raised[1], lm[p], active_model)
       ELSE /\ pc' = [pc EXCEPT ![p] = to]
            /\ UNCHANGED <<lm, prev_call>>
    /\ UNCHANGED <<WhisperModel, host, mn, active_model, next_id, evicted, active_config, calls>>

(* line 55, left operand: self._active_model *)
LmCheck(p) ==
    /\ pc[p] = "lm_check"
    /\ LmReadStep(p, ReadRaises(active_model),
                  IF Truthy(active_model) THEN "lm_check_key" ELSE "lm_evict")

(* line 55, right operand: self._active_model[0] == cache_key *)
LmCheckKey(p) ==
    /\ pc[p] = "lm_check_key"
    /\ LmReadStep(p, SubscriptRaises(active_model),
                  IF IsCacheHit(active_model, lm[p].cache_key) THEN "lm_hit" ELSE "lm_evict")

(* lines 56-57: return self._active_model[1] *)
LmHit(p) ==
    /\ pc[p] = "lm_hit"
    /\ IF SubscriptRaises(active_model) # <<>>
       THEN LmRaise(p, SubscriptRaises(active_model)[1], lm[p], active_model)
       ELSE LmReturn(p, active_model[2], lm[p], active_model)
    /\ UNCHANGED <<WhisperModel, host, mn, active_model, next_id, evicted, active_config, calls>>

(* line 59: if self._active_model *)
LmEvict(p) ==
    /\ pc[p] = "lm_evict"
    /\ LmReadStep(p, ReadRaises(active_model),
                  IF EvictNeeded(active_model) THEN "lm_evict_log" ELSE "lm_auto")

(* lines 60-62: the log line formats self._active_model[0] *)
LmEvictLog(p) ==
    /\ pc[p] = "lm_evict_log"
    /\ LmReadStep(p, SubscriptRaises(active_model), "lm_evict_del")

(* line 63: del FasterWhisperTranscriber._active_model; deleting an attribute
   that is not there raises AttributeError *)
LmEvictDel(p) ==
    /\ pc[p] = "lm_evict_del"
    /\ IF active_model = Deleted
       THEN /\ LmRaise(p, NoClassAttribute, lm[p], active_model)
            /\ UNCHANGED <<active_model, evicted, active_config>>
       ELSE /\ active_model' = Deleted
            /\ evicted' = evicted \cup ({active_model} \ {<<>>})
            /\ active_config' = <<>>
            /\ pc' = [pc EXCEPT ![p] = "lm_evict_none"]
            /\ UNCHANGED <<lm, prev_call>>
    /\ UNCHANGED <<WhisperModel, host, mn, next_id, calls>>

(* line 64: FasterWhisperTranscriber._active_model = None *)
LmEvictNone(p) ==
    /\ pc[p] = "lm_evict_none"
    /\ active_model' = EvictSlot(active_model)
    /\ evicted' = evicted \cup ({active_model} \ {<<>>, Deleted, active_model'})
    /\ active_config' = IF active_model' = <<>> THEN <<>> ELSE active_config
    /\ pc' = [pc EXCEPT ![p] = "lm_auto"]
    /\ UNCHANGED <<WhisperModel, host, mn, next_id, lm, prev_call, calls>>

(* What a call WhisperModel(...) can do: return a new object or raise.  When the
   import failed WhisperModel is None, and calling None raises TypeError. *)
CtorOutcomes ==
    IF WhisperModel = <<>> THEN {<<"raise", NoneNotCallable>>}
    ELSE {<<"return">>} \cup {<<"raise", e>> : e \in CtorErrors}

(* lines 70-75: WhisperModel(model_size, device="auto", compute_type) *)
LmAuto(p) ==
    /\ pc[p] = "lm_auto"
    /\ \E out \in CtorOutcomes :
         IF out[1] = "return"
         THEN /\ lm' = [lm EXCEPT ![p].model = <<next_id>>,
                                  ![p].ctor = Append(@, CtorCall(lm[p].model_size, "auto",
                                                  lm[p].compute_type, <<>>, <<next_id>>))]
              /\ next_id' = next_id + 1
              /\ pc' = [pc EXCEPT ![p] = "lm_store"]
              /\ UNCHANGED prev_call
         ELSE LET e == out[2]
                  frame == [lm[p] EXCEPT !.ctor = Append(@, CtorCall(lm[p].model_size, "auto",
                                                  lm[p].compute_type, <<e>>, <<>>))]
              IN  /\ IF Recoverable(e)
                     THEN /\ lm' = [lm EXCEPT ![p] = frame]
                          /\ pc' = [pc EXCEPT ![p] = "lm_cpu"]
                          /\ UNCHANGED prev_call
                     ELSE LmRaise(p, e, frame, active_model)
                  /\ UNCHANGED next_id
    /\ UNCHANGED <<WhisperModel, host, mn, active_model, evicted, active_config, calls>>

(* lines 76-78: WhisperModel(model_size, device="cpu", compute_type="int8") *)
LmCpu(p) ==
    /\ pc[p] = "lm_cpu"
    /\ \E out \in CtorOutcomes :
         IF out[1] = "return"
         THEN /\ lm' = [lm EXCEPT ![p].model = <<next_id>>,
                                  ![p].ctor = Append(@, CtorCall(lm[p].model_size, "cpu",
                                                  "int8", <<>>, <<next_id>>))]
              /\ next_id' = next_id + 1
              /\ pc' = [pc EXCEPT ![p] = "lm_store"]
              /\ UNCHANGED prev_call
         ELSE /\ LmRaise(p, out[2],
                         [lm[p] EXCEPT !.ctor = Append(@, CtorCall(lm[p].model_size, "cpu",
                                                  "int8", <<out[2]>>, <<>>))], active_model)
              /\ UNCHANGED next_id
    /\ UNCHANGED <<WhisperModel, host, mn, active_model, evicted, active_config, calls>>

(* lines 82-83: store the entry and return the model *)
LmStore(p) ==
    /\ pc[p] = "lm_store"
    /\ active_model' = StoreSlot(lm[p].cache_key, lm[p].model[1])
    /\ evicted' = evicted \cup ({active_model} \ {<<>>, Deleted, active_model'})
    /\ active_config' = <<lm[p].model_size, lm[p].compute_type,
                          lm[p].ctor[Len(lm[p].ctor)].device>>
    /\ LmReturn(p, lm[p].model[1], lm[p], active_model')
    /\ UNCHANGED <<WhisperModel, host, mn, next_id, calls>>

----------------------------------------------------------------------------
(* main, lines 85-201 *)

(* line 34 *)
MAX_TEXT_LENGTH == 524288

(* line 49 *)
default_model_size == "base"

(* line 113: model_size or self.default_model_size ("" stands for None: both are falsy) *)
TargetSize(model_size) == IF model_size = "" THEN default_model_size ELSE model_size

(* line 110 *)
MissingDependencyMessage == "Missing dependency: 'faster-whisper'. Install via pip."

(* The message without the cause *)
LoadFailedMessageNoCause(target_size, e) == "Failed to load model '" \o target_size \o "'"

(* line 118: f"Failed to load model '{target_size}': {e}" *)
LoadFailedMessage(target_size, e) ==
    "Failed to load model '" \o target_size \o "': " \o e.str

(* line 149: f"Transcription failed: {e}" *)
TranscriptionFailedMessage(e) == "Transcription failed: " \o e.str

(* Seconds, probabilities and scores are fixed-point numbers in units of
   0.000001: x stands for the double nearest to x / 10^6, 0 <= x < 2^30. *)

(* floor(log2(num / den)), the binary exponent of the double num / den *)
RECURSIVE BinaryExponent(_, _)
BinaryExponent(num, den) ==
    IF num >= 2 * den THEN 1 + BinaryExponent(num, 2 * den)
    ELSE IF num < den THEN BinaryExponent(2 * num, den) - 1
    ELSE 0

(* (r * 2^k) % 10^6 *)
RECURSIVE DoubleMod(_, _)
DoubleMod(r, k) == IF k <= 0 THEN r ELSE DoubleMod((2 * r) % 1000000, k - 1)

(* The fraction of a unit in the last place, in millionths, by which x / 10^6
   exceeds the largest 53-bit double not above it: 0 when x / 10^6 is a double,
   below 500000 when the nearest double is below x / 10^6, above when above *)
BinaryRemainder(x) == DoubleMod(x % 1000000, 52 - BinaryExponent(x, 1000000))

(* round(x, n) with unit = 10^(6-n): the multiple of unit nearest to the double;
   a decimal tie is decided by the side the double is on and, when the double is
   the tie itself, goes to the even multiple *)
RoundTo(x, unit) ==
    LET q == x \div unit
        r == x % unit
        rem == BinaryRemainder(x)
    IN  IF x = 0 THEN 0
        ELSE IF 2 * r < unit THEN q * unit
        ELSE IF 2 * r > unit THEN (q + 1) * unit
        ELSE IF rem = 0 THEN (IF q % 2 = 0 THEN q * unit ELSE (q + 1) * unit)
        ELSE IF rem < 500000 THEN q * unit
        ELSE (q + 1) * unit

(* math.exp on the log-probabilities the decoder hands out (whole numbers), the
   result in units of 0.000001; math.exp raises OverflowError above 709.78 *)
ExpOverflows(x) == x > 709
Exp(x) == CASE x = 1 -> 2718282
            [] x = 0 -> 1000000
            [] x = -1 -> 367879
            [] x = -2 -> 135335
            [] x = -3 -> 49787
            [] x = -4 -> 18316
            [] x = -5 -> 6738
            [] x = -6 -> 2479
            [] x = -7 -> 912
            [] x = -8 -> 335
            [] x = -9 -> 123
            [] x = -10 -> 45
            [] x = -11 -> 17
            [] x = -12 -> 6
            [] x = -13 -> 2
            [] x = -14 -> 1
            [] x <= -15 -> 0

(* A character is its code point.  A text is the sequence of its runs:
   [ch |-> c, n |-> k] stands for k times the character c.  No run is empty and
   neighbouring runs differ in ch, so a text has one representation and a
   transcript as long as MAX_TEXT_LENGTH is small *)
Run(c, n) == [ch |-> c, n |-> n]

(* The printable ASCII characters in the order of their code points: U+0020 to
   U+005F, and U+0061 to U+007E *)
AsciiFrom32 == " !\"#$%&'()*+,-./0123456789:;<=>?@ABCDEFGHIJKLMNOPQRSTUVWXYZ[\\]^_"
AsciiFrom97 == "abcdefghijklmnopqrstuvwxyz{|}~"

(* The place of the character c in the string s *)
IndexIn(s, c) == CHOOSE i \in 1..Len(s) : SubSeq(s, i, i) = c

(* ord(c) of one of these characters *)
Ord(c) ==
    IF \E i \in 1..Len(AsciiFrom32) : SubSeq(AsciiFrom32, i, i) = c
    THEN 31 + IndexIn(AsciiFrom32, c)
    ELSE 96 + IndexIn(AsciiFrom97, c)

(* a + b on texts *)
Concat(a, b) ==
    IF a = <<>> THEN b
    ELSE IF b = <<>> THEN a
    ELSE IF a[Len(a)].ch = b[1].ch
         THEN SubSeq(a, 1, Len(a) - 1) \o <<Run(b[1].ch, a[Len(a)].n + b[1].n)>> \o Tail(b)
         ELSE a \o b

(* The text of a string literal *)
RECURSIVE TextOf(_)
TextOf(s) ==
    IF Len(s) = 0 THEN <<>>
    ELSE Concat(<<Run(Ord(SubSeq(s, 1, 1)), 1)>>, TextOf(SubSeq(s, 2, Len(s))))

(* len(text) *)
RECURSIVE TextLen(_)
TextLen(t) == IF t = <<>> THEN 0 ELSE t[1].n + TextLen(Tail(t))

(* text[:k] *)
RECURSIVE Prefix(_, _)
Prefix(t, k) ==
    IF k <= 0 \/ t = <<>> THEN <<>>
    ELSE IF t[1].n >= k THEN <<Run(t[1].ch, k)>>
    ELSE <<t[1]>> \o Prefix(Tail(t), k - t[1].n)

(* What the decoder hands back: RawSegment and the metadata record.  words is
   <<>> when the segment has no such attribute and <<list>> when it has one *)
RawSegs ==
    { [text |-> TextOf(" hello"), start |-> 62500, end |-> 2000400, avg_logprob |-> -1,
       words |-> << << [start |-> 1000500, end |-> 1900300] >> >>],
      [text |-> Concat(TextOf("world"), <<Run(10, 1)>>), start |-> 2000400, end |-> 3300200,
       avg_logprob |-> 710, words |-> << <<>> >>] }

Infos ==
    { [language |-> "en", language_probability |-> <<987150>>, duration |-> 3405000],
      [language |-> "en", language_probability |-> <<>>, duration |-> 3405000] }

BatchSizes == {<<>>, <<4>>}

(* kwargs.get("word_timestamps"): absent, or the value passed through *)
WordTimestampOptions == {<<>>, <<FALSE>>, <<TRUE>>}

(* The arguments of main *)
Requests ==
    [model_size : Sizes \cup {""}, compute_type : ComputeTypes, force : {FALSE},
     batch_size : BatchSizes, word_timestamps : {<<>>}]

(* Exceptions of the batched adapter, the decoder, the segment stream and the
   progress callback, and of normalize_language_alpha3 *)
DecodeErrors == {Exc("RuntimeError", "decoding failed"), Exc("KeyboardInterrupt", "")}
NormalizeErrors == {Exc("ValueError", "unknown language")}

MnNoFrame ==
    [model_size |-> "", batch_size |-> <<>>, compute_type |-> "", force |-> FALSE,
     word_timestamps |-> <<>>, target_size |-> "",
     model |-> <<>>, inference_model |-> <<>>, info |-> <<>>, total_duration |-> <<>>,
     segments |-> <<>>, lang_3_letter |-> <<>>, schema_segments |-> <<>>,
     full_text_parts |-> <<>>,
     loads |-> 0, decodes |-> 0, progress |-> <<>>, failed_at |-> "", raised |-> <<>>,
     slot0 |-> <<>>,
     error |-> <<>>, result |-> <<>>]

(* self.set_error(message); return None *)
FailWith(frame, message) == [frame EXCEPT !.error = <<message>>, !.result = <<"None">>]

(* The capability check left out *)
CapabilityMissingNever(capability) == FALSE

(* line 109: WhisperModel is None *)
CapabilityMissing(capability) == capability = <<>>

(* The second try block extended to the end of main; the loop over the stream
   moved out of it *)
TryBlockWhole(step) == IF step = "acquire" THEN "load" ELSE "transcribe"
TryBlockNoStream(step) ==
    CASE step = "acquire" -> "load"
      [] step \in {"wrap", "decode"} -> "transcribe"
      [] OTHER -> "none"

(* The try blocks of main: lines 115-119 around the acquire, lines 121-150
   around the adapter, the decode call and the loop over the stream with its
   progress reports.  Lines 152-201 are inside no try block. *)
TryBlock(step) ==
    CASE step = "acquire" -> "load"
      [] step \in {"wrap", "decode", "stream", "progress"} -> "transcribe"
      [] OTHER -> "none"

(* A bare except: every exception handled *)
CaughtAny(e) == TRUE

(* lines 117, 148: except Exception *)
Caught(e) == IsInstance(e, "Exception")

(* The step `step` of main raised e: the handler of its try block (lines 117-119,
   148-150) reports an Exception and returns None; any other exception, and every
   exception outside a try block, leaves main *)
StepFails(frame, step, e) ==
    LET failed == [frame EXCEPT !.failed_at = step, !.raised = <<e>>]
    IN  CASE TryBlock(step) = "load" /\ Caught(e) ->
                FailWith(failed, LoadFailedMessage(frame.target_size, e))
          [] TryBlock(step) = "transcribe" /\ Caught(e) ->
                FailWith(failed, TranscriptionFailedMessage(e))
          [] OTHER -> [failed EXCEPT !.result = <<"raise", e>>]

MEnds(p, frame) ==
    /\ mn' = [mn EXCEPT ![p] = frame]
    /\ pc' = [pc EXCEPT ![p] = "done"]

(* lines 109-116: the capability check, then the acquire, for one of the
   requests `requests`, the host making at most `runs` calls *)
CallMainFrom(p, requests, runs) ==
    /\ pc[p] = "idle"
    /\ calls < runs
    /\ calls' = calls + 1
    /\ \E request \in requests :
         LET frame == [MnNoFrame EXCEPT !.model_size = request.model_size,
                                        !.batch_size = request.batch_size,
                                        !.compute_type = request.compute_type,
                                        !.force = request.force,
                                        !.word_timestamps = request.word_timestamps,
                                        !.slot0 = active_model]
         IN  IF CapabilityMissing(WhisperModel)
             THEN /\ MEnds(p, FailWith([frame EXCEPT !.failed_at = "capability"],
                                       MissingDependencyMessage))
                  /\ UNCHANGED lm
             ELSE /\ mn' = [mn EXCEPT ![p] =
                              [frame EXCEPT !.target_size = TargetSize(request.model_size),
                                            !.loads = 1]]
                  /\ EnterLoadModel(p, TargetSize(request.model_size),
                                    request.compute_type, "main")
    /\ UNCHANGED <<WhisperModel, host, active_model, next_id, prev_call, evicted, active_config>>

(* A serialized host calls main *)
CallMain(p) == Serialized /\ CallMainFrom(p, Requests, MaxCalls)

(* lines 115-119: the outcome of the acquire *)
MLoaded(p) ==
    /\ pc[p] = "m_loaded"
    /\ IF lm[p].outcome[1] = "raise"
       THEN /\ MEnds(p, StepFails(mn[p], "acquire", lm[p].outcome[2]))
            /\ UNCHANGED lm
       ELSE /\ mn' = [mn EXCEPT ![p].model = <<lm[p].outcome[2]>>]
            /\ pc' = [pc EXCEPT ![p] = "m_wrap"]
            /\ lm' = [lm EXCEPT ![p] = LmNoFrame]
    /\ UNCHANGED <<WhisperModel, host, active_model, next_id, prev_call, evicted, active_config, calls>>

(* lines 122-128: the batched adapter *)
MWrap(p) ==
    /\ pc[p] = "m_wrap"
    /\ IF mn[p].batch_size # <<>>
       THEN \/ /\ mn' = [mn EXCEPT ![p].inference_model = <<"batched", mn[p].model[1]>>]
               /\ pc' = [pc EXCEPT ![p] = "m_decode"]
            \/ \E e \in DecodeErrors : MEnds(p, StepFails(mn[p], "wrap", e))
       ELSE /\ mn' = [mn EXCEPT ![p].inference_model = <<"model", mn[p].model[1]>>]
            /\ pc' = [pc EXCEPT ![p] = "m_decode"]
    /\ UNCHANGED <<WhisperModel, host, active_model, next_id, lm, prev_call, evicted, active_config, calls>>

(* lines 137-142: the decode call *)
MDecode(p) ==
    /\ pc[p] = "m_decode"
    /\ LET frame == [mn[p] EXCEPT !.decodes = @ + 1]
       IN  \/ \E info \in Infos :
                /\ mn' = [mn EXCEPT ![p] =
                            [frame EXCEPT !.info = <<info>>,
                                          !.total_duration = <<RoundTo(info.duration, 10000)>>]]
                /\ pc' = [pc EXCEPT ![p] = "m_consume"]
           \/ \E e \in DecodeErrors : MEnds(p, StepFails(frame, "decode", e))
    /\ UNCHANGED <<WhisperModel, host, active_model, next_id, lm, prev_call, evicted, active_config, calls>>

(* The report made for the segment's start *)
ProgressReportStart(seg, total_duration) == [current |-> seg.start, total |-> total_duration]

(* line 146: self.update_progress(current=seg.end, total=total_duration) *)
ProgressReport(seg, total_duration) == [current |-> seg.end, total |-> total_duration]

(* lines 144-146: one turn of the loop over the lazy segment stream `stream`: it
   yields a segment and progress is reported, or the stream raises, or it ends *)
MConsumeFrom(p, stream) ==
    /\ pc[p] = "m_consume"
    /\ \/ \E seg \in stream :
            /\ Len(mn[p].segments) < MaxSegs
            /\ LET frame == [mn[p] EXCEPT !.segments = Append(@, seg)]
               IN  \/ /\ mn' = [mn EXCEPT ![p] =
                                  [frame EXCEPT !.progress =
                                      Append(@, ProgressReport(seg, mn[p].total_duration[1]))]]
                      /\ UNCHANGED pc
                   \/ \E e \in DecodeErrors : MEnds(p, StepFails(frame, "progress", e))
       \/ \E e \in DecodeErrors : MEnds(p, StepFails(mn[p], "stream", e))
       \/ /\ pc' = [pc EXCEPT ![p] = "m_lang"]
          /\ UNCHANGED mn
    /\ UNCHANGED <<WhisperModel, host, active_model, next_id, lm, prev_call, evicted, active_config, calls>>

MConsume(p) == MConsumeFrom(p, RawSegs)

(* normalize_language_alpha3 of dorsal.common.language, on the decoder's codes *)
Alpha3(language) == CASE language = "en" -> "eng" [] OTHER -> "und"

(* line 152: lang_3_letter = normalize_language_alpha3(info.language) *)
MLang(p) ==
    /\ pc[p] = "m_lang"
    /\ \/ /\ mn' = [mn EXCEPT ![p].lang_3_letter = <<Alpha3(mn[p].info[1].language)>>]
          /\ pc' = [pc EXCEPT ![p] = "m_segments"]
       \/ \E e \in NormalizeErrors : MEnds(p, StepFails(mn[p], "language", e))
    /\ UNCHANGED <<WhisperModel, host, active_model, next_id, lm, prev_call, evicted, active_config, calls>>

(* The characters str.isspace() is true of: what str.strip() removes *)
Whitespace ==
    {9, 10, 11, 12, 13, 28, 29, 30, 31, 32, 133, 160, 5760} \cup (8192..8202)
        \cup {8232, 8233, 8239, 8287, 12288}

(* Whether str.strip() removes the character at an end of the text *)
Strips(ch) == ch \in Whitespace

(* line 159: seg.text.strip() *)
RECURSIVE LStrip(_)
LStrip(s) == IF Len(s) > 0 /\ Strips(s[1].ch) THEN LStrip(Tail(s)) ELSE s
RECURSIVE RStrip(_)
RStrip(s) ==
    IF Len(s) > 0 /\ Strips(s[Len(s)].ch) THEN RStrip(SubSeq(s, 1, Len(s) - 1)) ELSE s
Strip(s) == RStrip(LStrip(s))

(* line 156: use_word_timing = kwargs.get("word_timestamps", False) *)
UseWordTiming(word_timestamps) == word_timestamps # <<>> /\ word_timestamps[1]

(* The word list used whenever it is not empty *)
SharpenUnasked(seg, use_word_timing) == seg.words # <<>> /\ seg.words[1] # <<>>

(* line 165: use_word_timing and hasattr(seg, "words") and seg.words *)
Sharpen(seg, use_word_timing) ==
    use_word_timing /\ seg.words # <<>> /\ seg.words[1] # <<>>

(* lines 159-176: one RawSegment to one output segment *)
SchemaSegment(seg, use_word_timing) ==
    LET sharpen == Sharpen(seg, use_word_timing)
        words == seg.words[1]
        start_time == IF sharpen THEN words[1].start ELSE seg.start
        end_time == IF sharpen THEN words[Len(words)].end ELSE seg.end
    IN  [text |-> Strip(seg.text),
         start_time |-> RoundTo(start_time, 1000),
         end_time |-> RoundTo(end_time, 1000),
         score |-> RoundTo(Exp(seg.avg_logprob), 100)]

(* lines 159-176: one turn of the loop, on the lists built so far.  The text is
   appended at line 160; math.exp at line 174 raises before the segment is
   appended at line 169, and the loop stops there *)
LoopTurn(built, seg, use_word_timing) ==
    LET parts == Append(built.full_text_parts, Strip(seg.text))
    IN  IF ExpOverflows(seg.avg_logprob)
        THEN [built EXCEPT !.full_text_parts = parts, !.raised = <<MathRangeError>>]
        ELSE [built EXCEPT !.full_text_parts = parts,
                           !.schema_segments =
                               Append(@, SchemaSegment(seg, use_word_timing))]

(* lines 154-176: the two lists after the loop over `segments`, and the
   exception that ended it early *)
RECURSIVE SegmentLoop(_, _, _)
SegmentLoop(built, segments, use_word_timing) ==
    IF segments = <<>> \/ built.raised # <<>> THEN built
    ELSE SegmentLoop(LoopTurn(built, Head(segments), use_word_timing), Tail(segments),
                     use_word_timing)

(* lines 154-176: the loop over the consumed segments *)
MSegments(p) ==
    /\ pc[p] = "m_segments"
    /\ LET built == SegmentLoop([schema_segments |-> <<>>, full_text_parts |-> <<>>,
                                 raised |-> <<>>],
                                mn[p].segments, UseWordTiming(mn[p].word_timestamps))
           frame == [mn[p] EXCEPT !.schema_segments = built.schema_segments,
                                  !.full_text_parts = built.full_text_parts]
       IN  IF built.raised # <<>>
           THEN MEnds(p, StepFails(frame, "segments", built.raised[1]))
           ELSE /\ mn' = [mn EXCEPT ![p] = frame]
                /\ pc' = [pc EXCEPT ![p] = "m_record"]
    /\ UNCHANGED <<WhisperModel, host, active_model, next_id, lm, prev_call, evicted, active_config, calls>>

(* line 178: " ".join(full_text_parts) *)
RECURSIVE Join(_)
Join(parts) ==
    IF Len(parts) = 0 THEN <<>>
    ELSE IF Len(parts) = 1 THEN parts[1]
    ELSE Concat(Concat(parts[1], <<Run(32, 1)>>), Join(Tail(parts)))


(* The text cut whatever force says *)
CapTextAlways(full_text, force) ==
    IF TextLen(full_text) > MAX_TEXT_LENGTH
    THEN Prefix(full_text, MAX_TEXT_LENGTH)
    ELSE full_text

(* lines 180-191: the text length ceiling *)
CapText(full_text, force) ==
    IF TextLen(full_text) > MAX_TEXT_LENGTH /\ ~force
    THEN Prefix(full_text, MAX_TEXT_LENGTH)
    ELSE full_text

(* lines 178-201: the record; round(None, 4) raises TypeError *)
MRecord(p) ==
    /\ pc[p] = "m_record"
    /\ LET info == mn[p].info[1]
       IN  IF info.language_probability = <<>>
           THEN MEnds(p, StepFails(mn[p], "record", RoundOfNone))
           ELSE MEnds(p, [mn[p] EXCEPT !.result =
                            <<"record",
                              [producer |-> "faster-whisper-" \o mn[p].target_size,
                               text |-> CapText(Join(mn[p].full_text_parts), mn[p].force),
                               language |-> mn[p].lang_3_letter[1],
                               duration |-> info.duration,
                               score_explanation |->
                                   "Probability derived from avg_logprob (exp)",
                               segments |-> mn[p].schema_segments,
                               attributes |->
                                   [language_probability |->
                                       RoundTo(info.language_probability[1], 100)]]>>])
    /\ UNCHANGED <<WhisperModel, host, active_model, next_id, lm, prev_call, evicted, active_config, calls>>

(* The caller takes the outcome and drops the frames *)
Finish(p) ==
    /\ pc[p] = "done"
    /\ pc' = [pc EXCEPT ![p] = "idle"]
    /\ lm' = [lm EXCEPT ![p] = LmNoFrame]
    /\ mn' = [mn EXCEPT ![p] = MnNoFrame]
    /\ UNCHANGED <<WhisperModel, host, active_model, next_id, prev_call, evicted, active_config, calls>>

----------------------------------------------------------------------------

Init ==
    /\ WhisperModel \in {<<>>, <<"WhisperModel">>}
    /\ active_model = <<>>
    /\ next_id = 1
    /\ pc = [p \in Procs |-> "idle"]
    /\ lm = [p \in Procs |-> LmNoFrame]
    /\ mn = [p \in Procs |-> MnNoFrame]
    /\ prev_call = <<>>
    /\ evicted = {}
    /\ active_config = <<>>
    /\ calls = 0
    /\ host = "serial"

Next ==
    \E p \in Procs :
        \/ CallLoadModel(p)
        \/ LmCheck(p)
        \/ LmCheckKey(p)
        \/ LmHit(p)
        \/ LmEvict(p)
        \/ LmEvictLog(p)
        \/ LmEvictDel(p)
        \/ LmEvictNone(p)
        \/ LmAuto(p)
        \/ LmCpu(p)
        \/ LmStore(p)
        \/ CallMain(p)
        \/ MLoaded(p)
        \/ MWrap(p)
        \/ MDecode(p)
        \/ MConsume(p)
        \/ MLang(p)
        \/ MSegments(p)
        \/ MRecord(p)
        \/ Finish(p)

Spec == Init /\ [][Next]_vars

----------------------------------------------------------------------------
(* The pipeline on transcripts that reach the text length ceiling, on segments
   with and without word lists and on low log-probabilities *)

MaxRuns == 2

(* Half the ceiling: two such texts joined are MAX_TEXT_LENGTH + 1 characters *)
LongText == <<Run(Ord("a"), MAX_TEXT_LENGTH \div 2)>>

(* What the decoder hands back: a long segment without the words attribute, a
   segment one character shorter once trimmed (it starts with U+3000) with an
   empty word list, a segment with one word, and a segment of low probability
   between a tab and a newline that ends before it starts and has two words.
   0.0625 and 1.0005 are halfway between two multiples of 0.001. *)
DecoderSegs ==
    { [text |-> LongText, start |-> 62500, end |-> 1500400, avg_logprob |-> 0,
       words |-> <<>>],
      [text |-> <<Run(12288, 1), Run(Ord("b"), MAX_TEXT_LENGTH \div 2 - 2), Run(Ord("c"), 1)>>,
       start |-> 1500400,
       end |-> 2900300, avg_logprob |-> -2, words |-> << <<>> >>],
      [text |-> TextOf(" hello"), start |-> 900100, end |-> 2000400, avg_logprob |-> -1,
       words |-> << << [start |-> 1000500, end |-> 1900300] >> >>],
      [text |-> <<Run(9, 1)>> \o TextOf("uh") \o <<Run(10, 1)>>, start |-> 3300200,
       end |-> 3000100, avg_logprob |-> -10,
       words |-> << << [start |-> 3100300, end |-> 3200100],
                       [start |-> 3200100, end |-> 3250400] >> >>] }

PipelineRequests ==
    [model_size : {"", "large"}, compute_type : {"int8"}, force : BOOLEAN,
     batch_size : {<<>>}, word_timestamps : WordTimestampOptions]

CallMainPipeline(p) == Serialized /\ CallMainFrom(p, PipelineRequests, MaxRuns)

MConsumePipeline(p) == MConsumeFrom(p, DecoderSegs)

InitPipeline ==
    /\ WhisperModel = <<"WhisperModel">>
    /\ active_model = <<>>
    /\ next_id = 1
    /\ pc = [p \in Procs |-> "idle"]
    /\ lm = [p \in Procs |-> LmNoFrame]
    /\ mn = [p \in Procs |-> MnNoFrame]
    /\ prev_call = <<>>
    /\ evicted = {}
    /\ active_config = <<>>
    /\ calls = 0
    /\ host = "serial"

NextPipeline ==
    \E p \in Procs :
        \/ CallMainPipeline(p)
        \/ LmCheck(p)
        \/ LmCheckKey(p)
        \/ LmHit(p)
        \/ LmEvict(p)
        \/ LmEvictLog(p)
        \/ LmEvictDel(p)
        \/ LmEvictNone(p)
        \/ LmAuto(p)
        \/ LmCpu(p)
        \/ LmStore(p)
        \/ MLoaded(p)
        \/ MWrap(p)
        \/ MDecode(p)
        \/ MConsumePipeline(p)
        \/ MLang(p)
        \/ MSegments(p)
        \/ MRecord(p)
        \/ Finish(p)

SpecPipeline == InitPipeline /\ [][NextPipeline]_vars

----------------------------------------------------------------------------
(* Concurrent hosts: two callers inside _load_model, or inside main, at once.
   The code takes no lock; the host either lets the statements of the two calls
   interleave freely, or runs check -> evict -> load -> store of each call as
   one critical section. *)

LmPcs == {"lm_check", "lm_check_key", "lm_hit", "lm_evict", "lm_evict_log", "lm_evict_del",
          "lm_evict_none", "lm_auto", "lm_cpu", "lm_store"}

(* No critical section: a call enters whatever the other calls do *)
MutexFreeAlways == TRUE

(* The critical section around the acquire-or-evict sequence: a call enters
   only when no other call is inside _load_model *)
MutexFree == \A q \in Procs : pc[q] \notin LmPcs

(* The arguments of the concurrent calls: two keys *)
ConcurrentRequests ==
    [model_size : {"large", "large-v3"}, compute_type : {"int8"}, force : {FALSE},
     batch_size : {<<>>}, word_timestamps : {<<>>}]

(* The arguments of the concurrent run of main: the key a model was loaded for
   in one of the initial states *)
ConcurrentMainRequests == {r \in ConcurrentRequests : r.model_size = "large"}

(* The decoder's stream in the concurrent runs: one kind of segment *)
ConcurrentSegs ==
    { [text |-> TextOf(" hello"), start |-> 62500, end |-> 2000400, avg_logprob |-> -1,
       words |-> <<>>] }

MConsumeConcurrent(p) == MConsumeFrom(p, ConcurrentSegs)

(* A direct call transcriber._load_model(model_size, compute_type) on a
   concurrent host *)
CallLoadModelConcurrent(p) ==
    /\ pc[p] = "idle"
    /\ host = "mutex" => MutexFree
    /\ calls < MaxConcurrentCalls
    /\ \E request \in ConcurrentRequests :
          EnterLoadModel(p, request.model_size, request.compute_type, "direct")
    /\ calls' = calls + 1
    /\ UNCHANGED <<WhisperModel, host, mn, active_model, next_id, prev_call, evicted,
                   active_config>>

(* A call of main on a concurrent host; the critical section is around the
   _load_model call it makes.  The host starts with one run of main and calls
   _load_model while it runs: lines 121-201 touch no shared state, so a second
   main differs from a _load_model call only in its local steps. *)
CallMainConcurrent(p) ==
    /\ host = "mutex" => MutexFree
    /\ calls = 0
    /\ CallMainFrom(p, ConcurrentMainRequests, MaxConcurrentCalls)

InitConcurrent ==
    /\ \/ /\ WhisperModel \in {<<>>, <<"WhisperModel">>}
          /\ active_model = <<>>
          /\ next_id = 1
          /\ prev_call = <<>>
          /\ active_config = <<>>
       \/ \* after _load_model("large", "int8") returned the model it loaded
          /\ WhisperModel = <<"WhisperModel">>
          /\ active_model = StoreSlot(CacheKey("large", "int8"), 1)
          /\ next_id = 2
          /\ prev_call = <<"large", "int8", "return", 1, 1>>
          /\ active_config = <<"large", "int8", "auto">>
    /\ pc = [p \in Procs |-> "idle"]
    /\ lm = [p \in Procs |-> LmNoFrame]
    /\ mn = [p \in Procs |-> MnNoFrame]
    /\ evicted = {}
    /\ calls = 0
    /\ host \in {"mutex", "free"}

NextConcurrent ==
    \E p \in Procs :
        \/ CallLoadModelConcurrent(p)
        \/ CallMainConcurrent(p)
        \/ LmCheck(p)
        \/ LmCheckKey(p)
        \/ LmHit(p)
        \/ LmEvict(p)
        \/ LmEvictLog(p)
        \/ LmEvictDel(p)
        \/ LmEvictNone(p)
        \/ LmAuto(p)
        \/ LmCpu(p)
        \/ LmStore(p)
        \/ MLoaded(p)
        \/ MWrap(p)
        \/ MDecode(p)
        \/ MConsumeConcurrent(p)
        \/ MLang(p)
        \/ MSegments(p)
        \/ MRecord(p)
        \/ Finish(p)

SpecConcurrent == InitConcurrent /\ [][NextConcurrent]_vars

----------------------------------------------------------------------------
(* Properties *)

(* The exception is a ValueError or a RuntimeError *)
IsRecoverableError(e) == Bases(e.cls) \cap {"ValueError", "RuntimeError"} # {}

(* The exception is an instance of Exception *)
IsException(e) == "Exception" \in Bases(e.cls)

(* A _load_model call of p has ended and its outcome is still in its frame *)
LmEnded(p) == lm[p].outcome # <<>>
(* An invocation of main by p has ended *)
MainEnded(p) == mn[p].result # <<>>

(* The runs of main that returned a record *)
Recorded(p) == MainEnded(p) /\ mn[p].result[1] = "record"

(* The call that just ended repeats the arguments of the call that returned
   right before it *)
RepeatsPrevious(p) ==
    /\ LmEnded(p)
    /\ lm[p].prev0 # <<>>
    /\ lm[p].prev0[3] = "return"
    /\ lm[p].prev0[1] = lm[p].model_size
    /\ lm[p].prev0[2] = lm[p].compute_type

(* C1: cache identity.  When _load_model(size, ct) returned and the next
   _load_model call has the same arguments, that call returns the identical
   instance, invokes the constructor zero times and leaves the slot as it found
   it, whichever transcriber object makes it. *)
C1_CacheIdentity ==
    \A p \in Procs :
        RepeatsPrevious(p) =>
            /\ lm[p].outcome = <<"return", lm[p].prev0[4]>>
            /\ lm[p].ctor = <<>>
            /\ lm[p].slot1 = lm[p].slot0
            /\ active_model = lm[p].slot0

(* the repeated call was made through the other transcriber object *)
C1_Witness ==
    \E p \in Procs :
        /\ RepeatsPrevious(p)
        /\ lm[p].prev0[5] # p
        /\ lm[p].outcome[1] = "return"

(* C2: eviction and no stale handles.  A call whose key differs from the
   resident key returns an instance one of its own constructor invocations
   made, which is not the instance that was resident; and no call returns an
   instance that was evicted from the slot. *)
C2_NoStaleHandles ==
    \A p \in Procs :
        (LmEnded(p) /\ lm[p].outcome[1] = "return") =>
            /\ \A entry \in evicted : entry[2] # lm[p].outcome[2]
            /\ (lm[p].slot0 = <<>> \/ lm[p].slot0[1] # lm[p].cache_key) =>
                  /\ \E i \in 1..Len(lm[p].ctor) : lm[p].ctor[i].made = <<lm[p].outcome[2]>>
                  /\ lm[p].slot0 # <<>> => lm[p].outcome[2] # lm[p].slot0[2]

(* acquire(k1), acquire(k2), acquire(k1): three pairwise distinct instances *)
C2_Witness ==
    \E p \in Procs : \E e1, e2 \in evicted :
        /\ LmEnded(p) /\ lm[p].outcome[1] = "return"
        /\ e1[1] = lm[p].cache_key
        /\ e2[1] # lm[p].cache_key
        /\ lm[p].slot0 = e2
        /\ e1[2] # e2[2]
        /\ lm[p].outcome[2] \notin {e1[2], e2[2]}

(* The instances something refers to: the slot, a _load_model frame, a main frame *)
Resident ==
    (IF Len(active_model) = 2 THEN {active_model[2]} ELSE {})
        \cup {lm[p].model[1] : p \in {q \in Procs : lm[q].model # <<>>}}
        \cup {mn[p].model[1] : p \in {q \in Procs : mn[q].model # <<>>}}

(* C3: single residency.  Under serialized callers at most one instance is
   resident in every state, and whenever a constructor is about to run (the
   accelerated attempt or the CPU fallback) the slot is empty and nothing is
   resident. *)
C3_SingleResidency ==
    /\ Cardinality(Resident) <= 1
    /\ \A p \in Procs :
          pc[p] \in {"lm_auto", "lm_cpu"} => active_model = <<>> /\ Resident = {}

(* the fallback attempt is about to start in a call that found the slot occupied *)
C3_Witness ==
    \E p \in Procs : pc[p] = "lm_cpu" /\ lm[p].slot0 # <<>>

(* C4: slot-key invariant.  Whenever no _load_model call is in progress, the
   slot is empty or holds one (key, handle) pair whose key is
   model_size-compute_type of the most recent call; before any call it is empty. *)
C4_SlotKeyInvariant ==
    (\A p \in Procs : pc[p] \notin LmPcs) =>
        IF prev_call = <<>>
        THEN active_model = <<>>
        ELSE \/ active_model = <<>>
             \/ /\ Len(active_model) = 2
                /\ active_model[1] = prev_call[1] \o "-" \o prev_call[2]

(* a load that succeeded after an earlier eviction and an earlier failure or hit *)
C4_Witness ==
    /\ \A p \in Procs : pc[p] \notin LmPcs
    /\ prev_call # <<>> /\ prev_call[3] = "return"
    /\ evicted # {}
    /\ calls = 3 /\ next_id = 3
    /\ active_model # <<>>

(* C5: the cache is keyed by the pair.  A call returns the resident instance
   without constructing anything if and only if the slot is occupied and its
   entry was loaded for the same model_size and the same compute_type. *)
C5_KeyedByPair ==
    \A p \in Procs :
        (LmEnded(p) /\ lm[p].outcome[1] = "return") =>
            ((lm[p].ctor = <<>> /\ lm[p].slot0 # <<>> /\ lm[p].outcome[2] = lm[p].slot0[2])
                <=> (lm[p].slot0 # <<>>
                        /\ SubSeq(lm[p].config0, 1, 2) =
                                <<lm[p].model_size, lm[p].compute_type>>))

(* C6: a failed load leaves the cache empty.  When _load_model raises, the slot
   is empty and the exception is the one the last constructor attempt raised;
   it reaches the caller of main in the message main sets when it is an
   Exception, and as the exception itself when it is not. *)
C6_FailedLoadLeavesCacheEmpty ==
    \A p \in Procs :
        /\ (LmEnded(p) /\ lm[p].outcome[1] = "raise") =>
              /\ active_model = <<>>
              /\ lm[p].slot1 = <<>>
              /\ lm[p].ctor # <<>>
              /\ lm[p].ctor[Len(lm[p].ctor)].raised = <<lm[p].outcome[2]>>
        /\ (MainEnded(p) /\ mn[p].failed_at = "acquire") =>
              /\ LmEnded(p) /\ lm[p].outcome[1] = "raise"
              /\ IF IsException(lm[p].outcome[2])
                 THEN /\ mn[p].result = <<"None">>
                      /\ mn[p].error = <<"Failed to load model '" \o mn[p].target_size
                                            \o "': " \o lm[p].outcome[2].str>>
                 ELSE /\ mn[p].result = <<"raise", lm[p].outcome[2]>>
                      /\ mn[p].error = <<>>

(* main reported a load in which both attempts failed and the slot was occupied *)
C6_Witness ==
    \E p \in Procs :
        /\ MainEnded(p) /\ mn[p].failed_at = "acquire"
        /\ mn[p].result = <<"None">>
        /\ lm[p].slot0 # <<>>
        /\ Len(lm[p].ctor) = 2

(* C7: single retry.  One _load_model call invokes the constructor at most
   twice: first with device auto and the requested compute type, then with cpu
   and int8 only after the first attempt raised ValueError or RuntimeError.
   Any other failure of the first attempt, and any failure of the fallback,
   leaves the call at once; main calls _load_model at most once and never
   decodes after a load failure. *)
C7_SingleRetry ==
    \A p \in Procs :
        LET c == lm[p].ctor
        IN  /\ Len(c) <= 2
            /\ Len(c) >= 1 =>
                  /\ c[1].device = "auto"
                  /\ c[1].compute_type = lm[p].compute_type
                  /\ c[1].model_size_or_path = lm[p].model_size
            /\ Len(c) = 2 =>
                  /\ c[1].raised # <<>> /\ IsRecoverableError(c[1].raised[1])
                  /\ c[2].device = "cpu"
                  /\ c[2].compute_type = "int8"
                  /\ c[2].model_size_or_path = lm[p].model_size
            /\ (Len(c) = 1 /\ c[1].raised # <<>> /\ ~IsRecoverableError(c[1].raised[1])) =>
                  lm[p].outcome = <<"raise", c[1].raised[1]>>
            /\ (Len(c) = 2 /\ c[2].raised # <<>>) =>
                  lm[p].outcome = <<"raise", c[2].raised[1]>>
            /\ mn[p].loads <= 1
            /\ mn[p].failed_at = "acquire" =>
                  mn[p].loads = 1 /\ mn[p].decodes = 0 /\ MainEnded(p)

(* the accelerated attempt raised NotImplementedError, a RuntimeError, and the
   fallback made the model *)
C7_Witness ==
    \E p \in Procs :
        /\ Len(lm[p].ctor) = 2
        /\ lm[p].ctor[1].raised # <<>>
        /\ lm[p].ctor[1].raised[1].cls = "NotImplementedError"
        /\ lm[p].ctor[2].made # <<>>
        /\ LmEnded(p) /\ lm[p].outcome[1] = "return"

(* C8 as stated: every invocation of main ends with a record and no error
   message, or with None and an error message; no exception reaches the caller. *)
C8_NoExceptionCrossesMain ==
    \A p \in Procs :
        MainEnded(p) =>
            \/ mn[p].result[1] = "record" /\ mn[p].error = <<>>
            \/ mn[p].result = <<"None">> /\ mn[p].error # <<>>

(* C8 amended: main ends with a record and no message when no step failed; with
   None and a message when the capability check failed, or when the acquire,
   the adapter, the decode call, the segment stream or a progress report raised
   an Exception; and with the exception reaching the caller, no message set,
   when one of these raised an exception that is no Exception, or when language
   normalization, per-segment normalization or record assembly raised. *)
C8_MainOutcomes ==
    \A p \in Procs :
        MainEnded(p) =>
            CASE mn[p].failed_at = "" ->
                    mn[p].result[1] = "record" /\ mn[p].error = <<>>
              [] mn[p].failed_at = "capability" ->
                    mn[p].result = <<"None">> /\ mn[p].error # <<>>
              [] mn[p].failed_at \in {"acquire", "wrap", "decode", "stream", "progress"} ->
                    IF IsException(mn[p].raised[1])
                    THEN /\ mn[p].result = <<"None">>
                         /\ mn[p].error =
                                IF mn[p].failed_at = "acquire"
                                THEN <<"Failed to load model '" \o mn[p].target_size
                                          \o "': " \o mn[p].raised[1].str>>
                                ELSE <<"Transcription failed: " \o mn[p].raised[1].str>>
                    ELSE /\ mn[p].result = <<"raise", mn[p].raised[1]>>
                         /\ mn[p].error = <<>>
              [] mn[p].failed_at \in {"language", "segments", "record"} ->
                    mn[p].result = <<"raise", mn[p].raised[1]>> /\ mn[p].error = <<>>
              [] OTHER -> FALSE

(* the report for the second segment raised KeyboardInterrupt, after one
   report was delivered: it left main, no message set, no record *)
C8_Witness ==
    \E p \in Procs :
        /\ MainEnded(p)
        /\ mn[p].failed_at = "progress"
        /\ Len(mn[p].segments) = 2 /\ Len(mn[p].progress) = 1
        /\ mn[p].raised # <<>> /\ mn[p].raised[1].cls = "KeyboardInterrupt"
        /\ mn[p].result = <<"raise", mn[p].raised[1]>>
        /\ mn[p].error = <<>>

(* a progress report raised RuntimeError: None and the message of line 149 *)
C8_ReportedReachable ==
    \E p \in Procs :
        /\ MainEnded(p)
        /\ mn[p].failed_at = "progress"
        /\ mn[p].raised # <<>> /\ mn[p].raised[1].cls = "RuntimeError"
        /\ mn[p].result = <<"None">>
        /\ mn[p].error = <<"Transcription failed: decoding failed">>

(* math.exp raised on the second of two segments, an avg_logprob no
   log-probability has: both texts were appended, one output segment was, and
   the OverflowError left main after two progress reports *)
C8_SegmentLoopRaiseReachable ==
    \E p \in Procs :
        /\ MainEnded(p)
        /\ mn[p].failed_at = "segments"
        /\ Len(mn[p].progress) = 2
        /\ Len(mn[p].full_text_parts) = 2 /\ Len(mn[p].schema_segments) = 1
        /\ mn[p].result = <<"raise", MathRangeError>>
        /\ mn[p].error = <<>>

(* it raised on the first of two segments: the loop stopped there, with the one
   text and no output segment *)
C8_SegmentLoopStopsReachable ==
    \E p \in Procs :
        /\ MainEnded(p)
        /\ mn[p].failed_at = "segments"
        /\ Len(mn[p].segments) = 2
        /\ Len(mn[p].full_text_parts) = 1 /\ mn[p].schema_segments = <<>>

(* C9: missing capability.  With WhisperModel None, main never calls
   _load_model, never decodes and never reports progress, and it ends with None,
   the message naming faster-whisper, and the slot as it found it. *)
C9_MissingCapability ==
    WhisperModel = <<>> =>
        \A p \in Procs :
            /\ mn[p].loads = 0
            /\ mn[p].decodes = 0
            /\ mn[p].progress = <<>>
            /\ lm[p].caller # "main"
            /\ MainEnded(p) =>
                  /\ mn[p].result = <<"None">>
                  /\ mn[p].error = <<"Missing dependency: 'faster-whisper'. Install via pip.">>
                  /\ active_model = mn[p].slot0

(* main ended without the capability, after an earlier invocation *)
C9_Witness ==
    \E p \in Procs :
        /\ WhisperModel = <<>>
        /\ MainEnded(p)
        /\ mn[p].failed_at = "capability"
        /\ calls >= 2

(* C10 as stated: when the decode call raises, or the stream raises after k
   segments were consumed, main ends with None and a message that starts with
   "Transcription failed"; k progress reports were delivered and no more, and no
   output segment was built. *)
C10_NoPartialRecord ==
    \A p \in Procs :
        (MainEnded(p) /\ mn[p].failed_at \in {"decode", "stream"}) =>
            /\ mn[p].result = <<"None">>
            /\ mn[p].error # <<>>
            /\ SubSeq(mn[p].error[1], 1, 20) = "Transcription failed"
            /\ Len(mn[p].progress) = Len(mn[p].segments)
            /\ mn[p].failed_at = "decode" => mn[p].segments = <<>>
            /\ mn[p].schema_segments = <<>>

(* C10: no partial record.  When the decode call raises, or the stream raises
   after k segments were consumed, main ends with None and the message
   "Transcription failed: ..." if the exception is an Exception, and the
   exception leaves main with no message set if it is not; in both cases k
   progress reports were delivered and no more, no output segment was built and
   no record is returned. *)
C10_NoPartialRecordOnException ==
    \A p \in Procs :
        (MainEnded(p) /\ mn[p].failed_at \in {"decode", "stream"}) =>
            /\ IF IsException(mn[p].raised[1])
               THEN /\ mn[p].result = <<"None">>
                    /\ mn[p].error = <<"Transcription failed: " \o mn[p].raised[1].str>>
               ELSE /\ mn[p].result = <<"raise", mn[p].raised[1]>>
                    /\ mn[p].error = <<>>
            /\ Len(mn[p].progress) = Len(mn[p].segments)
            /\ mn[p].failed_at = "decode" => mn[p].segments = <<>>
            /\ mn[p].schema_segments = <<>>

(* the stream raised RuntimeError after two segments were consumed and reported *)
C10_Witness ==
    \E p \in Procs :
        /\ MainEnded(p)
        /\ mn[p].failed_at = "stream"
        /\ mn[p].raised[1].cls = "RuntimeError"
        /\ mn[p].error = <<"Transcription failed: decoding failed">>
        /\ Len(mn[p].segments) = 2
        /\ Len(mn[p].progress) = 2

(* the stream raised KeyboardInterrupt after one segment: no message, no record *)
C10_InterruptReachable ==
    \E p \in Procs :
        /\ MainEnded(p)
        /\ mn[p].failed_at = "stream"
        /\ mn[p].result[1] = "raise" /\ mn[p].result[2].cls = "KeyboardInterrupt"
        /\ mn[p].error = <<>>
        /\ Len(mn[p].segments) = 1
        /\ Len(mn[p].progress) = 1

(* The instances the cache protocol refers to: the slot and the calls in progress *)
ResidentInCache ==
    (IF Len(active_model) = 2 THEN {active_model[2]} ELSE {})
        \cup {lm[p].model[1] : p \in {q \in Procs : pc[q] \in LmPcs /\ lm[q].model # <<>>}}

(* C11: concurrent acquire needs one critical section.  When each call runs
   check -> evict -> load -> store as one critical section, at most one instance
   is resident in the cache in every state, a call in progress that holds an
   instance finds the slot empty, and the slot-key invariant holds, under every
   interleaving.  Without it the statements of two calls interleave and two
   instances are resident at once. *)
C11_CriticalSection ==
    host = "mutex" =>
        /\ Cardinality(ResidentInCache) <= 1
        /\ \A p \in Procs :
              (pc[p] \in LmPcs /\ lm[p].model # <<>>) => active_model = <<>>
        /\ C4_SlotKeyInvariant

(* without the critical section: one caller has just returned the entry it
   stored, the other holds a second instance for another key and is about to
   store over it *)
C11_Witness ==
    \E p, q \in Procs :
        /\ host = "free"
        /\ pc[p] = "done" /\ LmEnded(p) /\ lm[p].outcome[1] = "return"
        /\ active_model = <<lm[p].cache_key, lm[p].outcome[2]>>
        /\ pc[q] = "lm_store"
        /\ lm[q].cache_key # lm[p].cache_key
        /\ lm[q].model # <<>> /\ lm[q].model[1] # lm[p].outcome[2]
        /\ lm[q].slot0 = <<>>
        /\ Cardinality(ResidentInCache) = 2

(* without the critical section: two callers asked for the same key and ended
   with different instances *)
C11_SplitReachable ==
    \E p, q \in Procs :
        /\ host = "free"
        /\ LmEnded(p) /\ LmEnded(q)
        /\ lm[p].cache_key = lm[q].cache_key
        /\ lm[p].outcome[1] = "return" /\ lm[q].outcome[1] = "return"
        /\ lm[p].outcome[2] # lm[q].outcome[2]

(* without the critical section: a call that found its key at line 55 returns
   at line 57 the instance another call stored in between under another key *)
C11_ForeignHitReachable ==
    \E p \in Procs :
        /\ host = "free"
        /\ LmEnded(p) /\ lm[p].outcome[1] = "return"
        /\ lm[p].ctor = <<>>
        /\ Len(lm[p].slot1) = 2
        /\ lm[p].slot1[2] = lm[p].outcome[2]
        /\ lm[p].slot1[1] # lm[p].cache_key

(* without the critical section: a call reads the slot between the del of line
   63 and the assignment of line 64 of another call *)
C11_AttributeErrorReachable ==
    \E p \in Procs :
        /\ host = "free"
        /\ LmEnded(p) /\ lm[p].outcome = <<"raise", NoInstanceAttribute>>

(* without the critical section: a call formats the key of an entry that
   another call has evicted since line 59 *)
C11_TypeErrorReachable ==
    \E p \in Procs :
        /\ host = "free" /\ WhisperModel # <<>>
        /\ LmEnded(p) /\ lm[p].outcome = <<"raise", NoneNotSubscriptable>>
        /\ lm[p].ctor = <<>>

(* without the critical section: the other call ran line 64 between the two
   reads of line 55 of main's _load_model call, and main reports the TypeError *)
C11_MainReportsTypeErrorReachable ==
    \E p \in Procs :
        /\ host = "free"
        /\ MainEnded(p) /\ mn[p].failed_at = "acquire"
        /\ lm[p].ctor = <<>>
        /\ mn[p].error =
              <<"Failed to load model 'large': 'NoneType' object is not subscriptable">>

(* with the critical section every exception that leaves _load_model is one a
   constructor call raised: no read of the slot fails *)
C11_MutexOnlyConstructorErrors ==
    host = "mutex" =>
        \A p \in Procs :
            (LmEnded(p) /\ lm[p].outcome[1] = "raise") =>
                /\ lm[p].ctor # <<>>
                /\ lm[p].ctor[Len(lm[p].ctor)].raised = <<lm[p].outcome[2]>>

(* without the critical section: main worked with a model whose entry another
   call evicted from the slot in the meantime *)
C11_MainOutlivesEntryReachable ==
    \E p \in Procs :
        /\ host = "free"
        /\ Recorded(p)
        /\ \E entry \in evicted : entry[2] = mn[p].model[1]

(* The single-space join of the trimmed texts of the consumed segments *)
JoinedText(frame) == Join([i \in 1..Len(frame.segments) |-> Strip(frame.segments[i].text)])

(* C12: text length ceiling.  With force false the record's text is the join J
   of the trimmed segment texts when J has at most MAX_TEXT_LENGTH characters
   and otherwise the first MAX_TEXT_LENGTH characters of J; with force true it
   is J, however long.  So a record made with force false has at most
   MAX_TEXT_LENGTH characters of text. *)
C12_TextLengthCeiling ==
    \A p \in Procs :
        (MainEnded(p) /\ mn[p].result[1] = "record") =>
            LET J == JoinedText(mn[p])
                text == mn[p].result[2].text
            IN  /\ (~mn[p].force /\ TextLen(J) <= MAX_TEXT_LENGTH) => text = J
                /\ (~mn[p].force /\ TextLen(J) > MAX_TEXT_LENGTH) =>
                        /\ TextLen(text) = MAX_TEXT_LENGTH
                        /\ text = Prefix(J, MAX_TEXT_LENGTH)
                /\ mn[p].force => text = J
                /\ ~mn[p].force => TextLen(text) <= MAX_TEXT_LENGTH

(* a record whose join was one character over the ceiling and was cut *)
C12_Witness ==
    \E p \in Procs :
        /\ MainEnded(p) /\ mn[p].result[1] = "record"
        /\ ~mn[p].force
        /\ TextLen(JoinedText(mn[p])) = MAX_TEXT_LENGTH + 1
        /\ TextLen(mn[p].result[2].text) = MAX_TEXT_LENGTH

(* the same transcript with force: the text is longer than the ceiling *)
C12_ForcedReachable ==
    \E p \in Procs :
        /\ MainEnded(p) /\ mn[p].result[1] = "record"
        /\ mn[p].force
        /\ TextLen(mn[p].result[2].text) = MAX_TEXT_LENGTH + 1

(* a join of exactly the ceiling is kept whole *)
C12_ExactReachable ==
    \E p \in Procs :
        /\ MainEnded(p) /\ mn[p].result[1] = "record"
        /\ ~mn[p].force
        /\ TextLen(JoinedText(mn[p])) = MAX_TEXT_LENGTH
        /\ mn[p].result[2].text = JoinedText(mn[p])

(* Word-level timestamps were requested in the pass-through options *)
WordTimingRequested(frame) == frame.word_timestamps = <<TRUE>>

(* The segment carries a word list that is not empty *)
HasWords(seg) == seg.words # <<>> /\ Len(seg.words[1]) > 0

(* C13: segment ordering.  In every returned record the segments are as many as
   the consumed raw segments, the i-th output segment is derived from the i-th
   raw segment (its trimmed text, and its own or its words' boundaries), and
   every output segment has end_time >= start_time. *)
C13_SegmentOrdering ==
    \A p \in Procs :
        Recorded(p) =>
            LET raw == mn[p].segments
                out == mn[p].result[2].segments
            IN  /\ Len(out) = Len(raw)
                /\ \A i \in 1..Len(out) :
                      /\ out[i].text = Strip(raw[i].text)
                      /\ out[i].start_time \in
                            {RoundTo(raw[i].start, 1000)} \cup
                            {RoundTo(w.start, 1000) : w \in
                                {raw[i].words[1][k] : k \in
                                    1..(IF HasWords(raw[i]) THEN Len(raw[i].words[1]) ELSE 0)}}
                      /\ out[i].end_time >= out[i].start_time

(* The part of C13 about the order alone: as many output segments as raw
   segments, the i-th with the trimmed text of the i-th *)
C13_OneToOne ==
    \A p \in Procs :
        Recorded(p) =>
            /\ Len(mn[p].result[2].segments) = Len(mn[p].segments)
            /\ \A i \in 1..Len(mn[p].segments) :
                  mn[p].result[2].segments[i].text = Strip(mn[p].segments[i].text)

(* C14: word-timing sharpening.  For every raw segment of a returned record the
   output start_time and end_time are the first word's start and the last
   word's end, rounded to 3 decimals, exactly when word-level timestamps were
   requested and the segment carries a word list that is not empty; otherwise
   (option absent or false, words absent, words empty) they are the segment's
   own start and end, rounded to 3 decimals. *)
C14_WordTimingSharpening ==
    \A p \in Procs :
        Recorded(p) =>
            \A i \in 1..Len(mn[p].segments) :
                LET seg == mn[p].segments[i]
                    out == mn[p].result[2].segments[i]
                IN  IF WordTimingRequested(mn[p]) /\ HasWords(seg)
                    THEN /\ out.start_time = RoundTo(seg.words[1][1].start, 1000)
                         /\ out.end_time = RoundTo(seg.words[1][Len(seg.words[1])].end, 1000)
                    ELSE /\ out.start_time = RoundTo(seg.start, 1000)
                         /\ out.end_time = RoundTo(seg.end, 1000)

(* a record made with word timestamps requested: the two-word segment has its
   words' boundaries, the segment with an empty word list and the segment
   without the attribute have their own *)
C14_Witness ==
    \E p \in Procs :
        /\ Recorded(p)
        /\ WordTimingRequested(mn[p])
        /\ \E i \in 1..Len(mn[p].segments) :
              /\ Len(mn[p].segments[i].words) = 1 /\ Len(mn[p].segments[i].words[1]) = 2
              /\ mn[p].result[2].segments[i].start_time = 3100000
              /\ mn[p].result[2].segments[i].end_time = 3250000
              /\ mn[p].segments[i].start = 3300200
        /\ \E i \in 1..Len(mn[p].segments) :
              /\ ~HasWords(mn[p].segments[i])
              /\ mn[p].segments[i].start = 62500
              /\ mn[p].result[2].segments[i].start_time = 62000

(* a record made with word_timestamps=False from a segment with words: the
   segment's own boundaries, which differ from its words' *)
C14_UnaskedReachable ==
    \E p \in Procs :
        /\ Recorded(p)
        /\ mn[p].word_timestamps = <<FALSE>>
        /\ \E i \in 1..Len(mn[p].segments) :
              /\ HasWords(mn[p].segments[i])
              /\ mn[p].result[2].segments[i].start_time = 900000
              /\ mn[p].result[2].segments[i].end_time = 2000000

(* C15: progress per segment, in order.  A run that returns a record over n raw
   segments has delivered exactly n progress reports; the i-th report is made
   when the i-th segment is consumed, with current = that segment's end and
   total = round(duration, 2), the same in every report; the segments are
   normalized and the record is built only after the stream is exhausted, with
   all n reports delivered. *)
C15_ProgressPerSegment ==
    \A p \in Procs :
        LET frame == mn[p]
            n == Len(frame.segments)
        IN  /\ \A i \in 1..Len(frame.progress) :
                  /\ i <= n
                  /\ frame.progress[i].current = frame.segments[i].end
                  /\ frame.progress[i].total = RoundTo(frame.info[1].duration, 10000)
            /\ Len(frame.progress) = (IF frame.failed_at = "progress" THEN n - 1 ELSE n)
            /\ (frame.progress # <<>> /\ pc[p] # "done") =>
                    pc[p] \in {"m_consume", "m_lang", "m_segments", "m_record"}
            /\ (frame.schema_segments # <<>> \/ Recorded(p)) =>
                    /\ Len(frame.progress) = n
                    /\ pc[p] \in {"m_record", "done"}
            /\ Recorded(p) => Len(frame.result[2].segments) = n

(* a record over two segments with different ends: two reports, in the order of
   the stream *)
C15_Witness ==
    \E p \in Procs :
        /\ Recorded(p)
        /\ Len(mn[p].segments) = 2
        /\ mn[p].segments[1].end = 1500400 /\ mn[p].segments[2].end = 2900300
        /\ mn[p].progress = << [current |-> 1500400, total |-> 3400000],
                               [current |-> 2900300, total |-> 3400000] >>

(* C16: monotone progress.  Within one invocation of main the current values
   passed to the progress callback never decrease, for every segment stream the
   decoder yields. *)
C16_MonotoneProgress ==
    \A p \in Procs :
        \A i, j \in 1..Len(mn[p].progress) :
            i < j => mn[p].progress[i].current <= mn[p].progress[j].current

(* C17: score bounds.  For every raw segment with avg_logprob <= 0 the score of
   the corresponding output segment, exp(avg_logprob) rounded to 4 decimals, is
   in (0, 1]: never 0 and never above 1. *)
C17_ScoreBounds ==
    \A p \in Procs :
        Recorded(p) =>
            \A i \in 1..Len(mn[p].segments) :
                mn[p].segments[i].avg_logprob <= 0 =>
                    /\ mn[p].result[2].segments[i].score > 0
                    /\ mn[p].result[2].segments[i].score <= 1000000

(* The scores of C17 are in [0, 1] *)
C17_ScoreInClosedInterval ==
    \A p \in Procs :
        Recorded(p) =>
            \A i \in 1..Len(mn[p].segments) :
                mn[p].segments[i].avg_logprob <= 0 =>
                    /\ mn[p].result[2].segments[i].score >= 0
                    /\ mn[p].result[2].segments[i].score <= 1000000

(* The call found in the slot an entry that the CPU/int8 fallback had made *)
FoundFallbackEntry(p) == LmEnded(p) /\ lm[p].slot0 # <<>> /\ lm[p].config0[3] = "cpu"

(* The call's own accelerated attempt failed recoverably and its fallback made
   the model: the instance is stored under the key of the requested pair *)
FallbackStoredUnderRequestedKey(p) ==
    (LmEnded(p) /\ Len(lm[p].ctor) = 2 /\ lm[p].ctor[2].made # <<>>) =>
        /\ IsRecoverableError(lm[p].ctor[1].raised[1])
        /\ lm[p].outcome = <<"return", lm[p].ctor[2].made[1]>>
        /\ lm[p].slot1 = <<lm[p].model_size \o "-" \o lm[p].compute_type,
                           lm[p].ctor[2].made[1]>>

(* A call with the requested pair of a fallback entry is a hit: it returns the
   fallback instance and calls no constructor *)
RepeatAfterFallbackHits(p) ==
    (FoundFallbackEntry(p) /\ lm[p].model_size = lm[p].config0[1]
                           /\ lm[p].compute_type = lm[p].config0[2]) =>
        /\ lm[p].outcome = <<"return", lm[p].slot0[2]>>
        /\ lm[p].ctor = <<>>
        /\ lm[p].slot1 = lm[p].slot0

(* The call was a miss: the entry it found was evicted and a constructor ran *)
MissedAndReloaded(p) ==
    /\ lm[p].ctor # <<>>
    /\ lm[p].ctor[1].device = "auto"
    /\ lm[p].slot0 \in evicted
    /\ lm[p].outcome # <<"return", lm[p].slot0[2]>>

(* C19 as stated: after a fallback the instance is stored under the requested
   key; a repeat of the requested pair is a hit without a new accelerated
   attempt, and an acquire of (model_size, "int8") is a miss that evicts and
   reloads. *)
C19_FallbackKeying ==
    \A p \in Procs :
        /\ FallbackStoredUnderRequestedKey(p)
        /\ RepeatAfterFallbackHits(p)
        /\ (FoundFallbackEntry(p) /\ lm[p].model_size = lm[p].config0[1]
                                  /\ lm[p].compute_type = "int8") =>
                MissedAndReloaded(p)

(* C19: fallback keying.  After a fallback the instance is stored under the
   requested key; a repeat of the requested pair is a hit that returns the
   fallback instance without a new accelerated attempt; an acquire of
   (model_size, "int8") is a miss that evicts and reloads when the requested
   compute_type was not "int8", and is that same hit when it was. *)
C19_FallbackKeyingRequested ==
    \A p \in Procs :
        /\ FallbackStoredUnderRequestedKey(p)
        /\ RepeatAfterFallbackHits(p)
        /\ (FoundFallbackEntry(p) /\ lm[p].model_size = lm[p].config0[1]
                                  /\ lm[p].compute_type = "int8"
                                  /\ lm[p].config0[2] # "int8") =>
                MissedAndReloaded(p)

(* the fallback made the entry for ("large", "v3-int8"); this call asked for
   ("large", "int8"), evicted it and loaded again *)
C19_Witness ==
    \E p \in Procs :
        /\ FoundFallbackEntry(p)
        /\ lm[p].config0 = <<"large", "v3-int8", "cpu">>
        /\ lm[p].slot0[1] = "large-v3-int8"
        /\ lm[p].model_size = "large" /\ lm[p].compute_type = "int8"
        /\ lm[p].outcome[1] = "return"
        /\ lm[p].slot0 \in evicted

(* the repeat of the requested pair after a fallback *)
C19_RepeatReachable ==
    \E p \in Procs :
        /\ FoundFallbackEntry(p)
        /\ lm[p].config0 = <<"large", "v3-int8", "cpu">>
        /\ lm[p].model_size = "large" /\ lm[p].compute_type = "v3-int8"
        /\ lm[p].outcome = <<"return", lm[p].slot0[2]>>

(* C18 as stated: in every invocation of main _load_model is called at most
   once and only if the capability check passed; decode is invoked at most once
   and only after _load_model returned a handle; progress is reported only
   after the decode call returned; a record is returned only if all of these
   succeeded.  If _load_model fails, main reports the load failure and stops:
   no decode, no progress report. *)
C18_FailFastOrdering ==
    \A p \in Procs :
        LET frame == mn[p]
        IN  /\ frame.loads <= 1 /\ frame.decodes <= 1
            /\ frame.loads = 1 => WhisperModel # <<>>
            /\ frame.decodes = 1 => (frame.loads = 1 /\ frame.model # <<>>)
            /\ frame.progress # <<>> => (frame.decodes = 1 /\ frame.info # <<>>)
            /\ Recorded(p) =>
                  /\ frame.loads = 1 /\ frame.decodes = 1
                  /\ frame.model # <<>> /\ frame.info # <<>>
                  /\ frame.failed_at = "" /\ frame.error = <<>>
            /\ (pc[p] = "done" /\ lm[p].caller = "main" /\ lm[p].outcome[1] = "raise") =>
                  /\ frame.failed_at = "acquire"
                  /\ frame.error = <<"Failed to load model '" \o frame.target_size
                                        \o "': " \o lm[p].outcome[2].str>>
                  /\ frame.result = <<"None">>
                  /\ frame.model = <<>>
                  /\ frame.decodes = 0
                  /\ frame.progress = <<>>
            /\ frame.failed_at = "acquire" =>
                  (pc[p] = "done" /\ lm[p].caller = "main" /\ lm[p].outcome[1] = "raise")

(* C18: fail-fast step ordering.  In every invocation of main _load_model is
   called at most once and only if the capability check passed; decode is
   invoked at most once and only after _load_model returned a handle; progress
   is reported only after the decode call returned; a record is returned only
   if all of these succeeded.  If _load_model raises, main stops without a
   decode call or a progress report: it reports the load failure and returns
   None when the exception is an Exception, and lets the exception through with
   no message when it is not. *)
C18_FailFastOrderingOnException ==
    \A p \in Procs :
        LET frame == mn[p]
        IN  /\ frame.loads <= 1 /\ frame.decodes <= 1
            /\ frame.loads = 1 => WhisperModel # <<>>
            /\ frame.decodes = 1 => (frame.loads = 1 /\ frame.model # <<>>)
            /\ frame.progress # <<>> => (frame.decodes = 1 /\ frame.info # <<>>)
            /\ Recorded(p) =>
                  /\ frame.loads = 1 /\ frame.decodes = 1
                  /\ frame.model # <<>> /\ frame.info # <<>>
                  /\ frame.failed_at = "" /\ frame.error = <<>>
            /\ (pc[p] = "done" /\ lm[p].caller = "main" /\ lm[p].outcome[1] = "raise") =>
                  /\ frame.failed_at = "acquire"
                  /\ IF IsException(lm[p].outcome[2])
                     THEN /\ frame.error = <<"Failed to load model '" \o frame.target_size
                                                \o "': " \o lm[p].outcome[2].str>>
                          /\ frame.result = <<"None">>
                     ELSE /\ frame.error = <<>>
                          /\ frame.result = <<"raise", lm[p].outcome[2]>>
                  /\ frame.model = <<>>
                  /\ frame.decodes = 0
                  /\ frame.progress = <<>>
            /\ frame.failed_at = "acquire" =>
                  (pc[p] = "done" /\ lm[p].caller = "main" /\ lm[p].outcome[1] = "raise")

(* the constructor raised KeyboardInterrupt: it left main with no message, no
   decode call and no progress report *)
C18_InterruptReachable ==
    \E p \in Procs :
        /\ MainEnded(p)
        /\ mn[p].failed_at = "acquire"
        /\ mn[p].result[1] = "raise" /\ mn[p].result[2].cls = "KeyboardInterrupt"
        /\ mn[p].error = <<>>
        /\ mn[p].decodes = 0 /\ mn[p].progress = <<>>

(* _load_model failed after its two constructor attempts: main stopped with the
   load failure, without a decode call or a progress report *)
C18_Witness ==
    \E p \in Procs :
        /\ MainEnded(p)
        /\ mn[p].failed_at = "acquire"
        /\ Len(lm[p].ctor) = 2
        /\ mn[p].loads = 1 /\ mn[p].decodes = 0 /\ mn[p].progress = <<>>
        /\ mn[p].error = <<"Failed to load model 'base': model not found">>

(* C20: the pipeline's frame on the slot.  From the moment its _load_model call
   returned until main ends (in a transcription failure, in an exception of the
   later steps or in a record) the slot holds the unwrapped model under the key
   of the requested pair; and a run that finds the key of its own pair in the
   slot is a cache hit: it calls no constructor, works with the resident
   instance and leaves the slot as it found it. *)
C20_PipelineKeepsSlot ==
    \A p \in Procs :
        LET frame == mn[p]
            key == frame.target_size \o "-" \o frame.compute_type
        IN  /\ frame.model # <<>> => active_model = <<key, frame.model[1]>>
            /\ (frame.inference_model # <<>>) => frame.inference_model[2] = active_model[2]
            /\ (frame.loads = 1 /\ frame.slot0 # <<>> /\ frame.slot0[1] = key) =>
                  /\ pc[p] \notin LmPcs =>
                        /\ active_model = frame.slot0
                        /\ lm[p].ctor = <<>>
                  /\ pc[p] = "m_loaded" => lm[p].outcome = <<"return", frame.slot0[2]>>
                  /\ frame.model # <<>> => frame.model[1] = frame.slot0[2]
                  /\ frame.failed_at # "acquire"

(* a run through the batched adapter found the model of its pair in the slot,
   reused it, and ended in a transcription failure with the slot unchanged *)
C20_Witness ==
    \E p \in Procs :
        /\ MainEnded(p)
        /\ mn[p].failed_at \in {"decode", "stream", "progress"}
        /\ mn[p].slot0 # <<>>
        /\ mn[p].slot0[1] = mn[p].target_size \o "-" \o mn[p].compute_type
        /\ mn[p].model = <<mn[p].slot0[2]>>
        /\ mn[p].inference_model = <<"batched", mn[p].slot0[2]>>
        /\ active_model = mn[p].slot0

(* a run that returned a record left the model it loaded in the slot *)
C20_RecordReachable ==
    \E p \in Procs :
        /\ Recorded(p)
        /\ mn[p].slot0 = <<>>
        /\ active_model = <<"base-int8", mn[p].model[1]>>

====
